---- MODULE Spec2Model ----
(***************************************************************************)
(* A model of scyjava-stubs: the namespace root finder                     *)
(* (list_top_level_packages), the stub driver and reconciler               *)
(* (generate_stubs), the command line entry point (main) and the lazy      *)
(* dynamic import mechanism (dynamic_import).                              *)
(*                                                                         *)
(* Text is modelled as a sequence of characters (one-character strings;    *)
(* the extension "class" and a few keywords are kept as one token).  A     *)
(* path (PurePath) is the sequence of its parts, the path "." being the    *)
(* empty sequence, as PurePath(".").parts == ().                           *)
(***************************************************************************)
EXTENDS Integers, Sequences, FiniteSets, TLC

VARIABLES
    \* list_top_level_packages
    namelist, rfpc, class_dirs, pending, roots, packages,
    \* generate_stubs, and the output directory it writes to
    pc, runs, endpoints, prefixesArg, add_runtime_imports,
    remove_namespace_only_stubs, prefixes, jmodules, genCalls, genArg,
    failedRoot, todo, stubs, shims, firstShim,
    \* main
    mpc, args, output_dir, called,
    \* dynamic_import
    bstate, lockHolder, cache, tpc, tname, tresult, starts, boots, lookups,
    returned, calls

rfVars == <<namelist, rfpc, class_dirs, pending, roots, packages>>
gsVars == <<pc, runs, endpoints, prefixesArg, add_runtime_imports,
            remove_namespace_only_stubs, prefixes, jmodules, genCalls, genArg,
            failedRoot, todo, stubs, shims, firstShim>>
mainVars == <<mpc, args, output_dir, called>>
diVars == <<bstate, lockHolder, cache, tpc, tname, tresult, starts, boots,
            lookups, returned, calls>>
vars == <<rfVars, gsVars, mainVars, diVars>>

(***************************************************************************)
(* Bounds of the model.                                                    *)
(***************************************************************************)
MaxDepth == 2
MaxEntries == 3
MaxRuns == 2
MaxCalls == 3

(***************************************************************************)
(* Generic helpers on sequences.                                           *)
(***************************************************************************)
RECURSIVE Cat(_)
\* "".join(chars): the Python string a character sequence stands for
Cat(s) == IF s = <<>> THEN "" ELSE Head(s) \o Cat(Tail(s))

RECURSIVE SeqsUpTo(_, _)
SeqsUpTo(S, n) ==
    IF n = 0 THEN {<<>>}
    ELSE LET shorter == SeqsUpTo(S, n - 1)
         IN  shorter \cup {Append(s, x) : s \in shorter, x \in S}

Range(s) == {s[i] : i \in 1..Len(s)}

RECURSIVE SetsUpTo(_, _)
\* the subsets of S with at most n elements
SetsUpTo(S, n) ==
    IF n = 0 THEN {{}}
    ELSE LET smaller == SetsUpTo(S, n - 1)
         IN  smaller \cup {s \cup {x} : s \in smaller, x \in S}

(***************************************************************************)
(* pathlib.PurePath                                                        *)
(***************************************************************************)
\* PurePath.name: the last part
Name(p) == IF p = <<>> THEN <<>> ELSE p[Len(p)]

\* PurePath.parent: "." is its own parent
Parent(p) == IF p = <<>> THEN <<>> ELSE SubSeq(p, 1, Len(p) - 1)

\* PurePath.parents: the proper ancestors, "." (the empty path) included
Parents(p) == {SubSeq(p, 1, k) : k \in 0..(Len(p) - 1)}

\* str.rfind("."), 0-based, -1 when absent
RFindDot(name) ==
    LET hits == {i \in 1..Len(name) : name[i] = "."}
    IN  IF hits = {} THEN -1
        ELSE (CHOOSE i \in hits : \A j \in hits : j <= i) - 1

\* PurePath.suffix: the part of the name from its last dot, "" when the dot
\* is missing, leading or trailing
Suffix(p) ==
    LET name == Name(p)
        i == RFindDot(name)
    IN  IF 0 < i /\ i < Len(name) - 1
        THEN SubSeq(name, i + 1, Len(name))
        ELSE <<>>

RECURSIVE PathStr(_)
\* str(PurePath): the parts joined by os.sep, "." for the empty path
PathStr(p) ==
    IF p = <<>> THEN <<".">>
    ELSE IF Len(p) = 1 THEN p[1]
    ELSE PathStr(SubSeq(p, 1, Len(p) - 1)) \o <<"/">> \o p[Len(p)]

\* str.replace(old, new) for one-character old and new
Replace(s, old, new) == [i \in 1..Len(s) |-> IF s[i] = old THEN new ELSE s[i]]

\* str(p).replace(os.sep, ".")
DottedName(p) == Replace(PathStr(p), "/", ".")

(***************************************************************************)
(* list_top_level_packages                                                 *)
(***************************************************************************)
DotClass == <<".", "class">>

\* the set comprehension over jar.namelist()
ClassDirs(names) == {Parent(x) : x \in {e \in names : Suffix(e) = DotClass}}

\* (variant: the sort key is dropped)
NextInOrder_Unsorted(left) == left
\* one choice of sorted(class_dirs, key=lambda p: len(p.parts)): the sort is
\* stable over the set's iteration order, so any directory of least depth
\* among those left may come next
NextInOrder(left) == {p \in left : \A q \in left : Len(p) <= Len(q)}

\* (variant: p.parent is looked up in place of p.parents)
Accepts_ParentOnly(rs, p) == p = <<>> \/ Parent(p) \notin rs
\* not any(root in p.parents for root in roots)
Accepts(rs, p) == ~(\E root \in rs : root \in Parents(p))

RECURSIVE GreedyRoots(_, _)
\* the for loop, run to its end (the result does not depend on the order of
\* ties, which is what the stepwise actions below explore)
GreedyRoots(left, rs) ==
    IF left = {} THEN rs
    ELSE LET p == CHOOSE q \in NextInOrder(left) : TRUE
         IN  GreedyRoots(left \ {p}, IF Accepts(rs, p) THEN rs \cup {p} ELSE rs)

\* the whole function on one archive's entry list
ListTopLevelPackages(names) ==
    {DottedName(p) : p \in GreedyRoots(ClassDirs(names), {})}

(***************************************************************************)
(* The archives the root finder is run on: every entry list of at most     *)
(* MaxEntries entries in directories of depth at most MaxDepth, and the    *)
(* archive with classes a/b/C, a/b/d/E and a/f/G.                          *)
(***************************************************************************)
Segs == {<<"a">>, <<"b">>}
ClassFile == <<"C", ".", "class">>
TextFile == <<"r", ".", "txt">>
FileNames == {ClassFile, TextFile}
Dirs == SeqsUpTo(Segs, MaxDepth)
Entries == {Append(d, f) : d \in Dirs, f \in FileNames}

ExampleArchive ==
    { << <<"a">>, <<"b">>, <<"C", ".", "class">> >>,
      << <<"a">>, <<"b">>, <<"d">>, <<"E", ".", "class">> >>,
      << <<"a">>, <<"f">>, <<"G", ".", "class">> >> }

Archives == SetsUpTo(Entries, MaxEntries) \cup {ExampleArchive}

\* lines 185-193: the archive is read, class_dirs and the empty roots are built
RF_Collect ==
    /\ rfpc = "open"
    /\ class_dirs' = ClassDirs(namelist)
    /\ pending' = ClassDirs(namelist)
    /\ roots' = {}
    /\ rfpc' = "loop"
    /\ UNCHANGED <<namelist, packages>>
    /\ UNCHANGED <<gsVars, mainVars, diVars>>

\* lines 194-197: one iteration of the for loop
RF_Step ==
    /\ rfpc = "loop"
    /\ \E p \in NextInOrder(pending) :
          /\ roots' = IF Accepts(roots, p) THEN roots \cup {p} ELSE roots
          /\ pending' = pending \ {p}
    /\ UNCHANGED <<namelist, rfpc, class_dirs, packages>>
    /\ UNCHANGED <<gsVars, mainVars, diVars>>

\* lines 198-200: the loop is over, the roots become dotted names
RF_Finish ==
    /\ rfpc = "loop"
    /\ pending = {}
    /\ packages' = {DottedName(p) : p \in roots}
    /\ rfpc' = "done"
    /\ UNCHANGED <<namelist, class_dirs, pending, roots>>
    /\ UNCHANGED <<gsVars, mainVars, diVars>>


(***************************************************************************)
(* generate_stubs: its inputs                                              *)
(***************************************************************************)
\* maven coordinates (opaque strings to this code)
CoordA == "o.a:liba:1"
CoordB == "o.b:libb:1"
CoordT == "t:libt:1"

\* jpype.getClassPath() after scyjava.start_jvm(): the archive resolved for
\* each coordinate (lines 119-123 pick the archives by artifact name).  libt
\* has a class at its top level, as an archive with a module-info.class has.
JarOf(c) ==
    CASE c = CoordA -> { << <<"o">>, <<"a">>, ClassFile >>,
                         << <<"o">>, <<"a">>, <<"x">>, ClassFile >>,
                         << <<"M">>, TextFile >> }
      [] c = CoordB -> { << <<"o">>, <<"b">>, ClassFile >> }
      [] OTHER      -> { << ClassFile >>, << <<"t">>, ClassFile >> }

EndpointChoices ==
    {<<CoordA>>, <<CoordB>>, <<CoordT>>, <<CoordA, CoordB>>,
     <<CoordB, CoordA>>}

NameOB == <<"o", ".", "b">>
PrefixChoices == {{}, {NameOB}}

\* the packages of the output tree, each the directory of one __init__.pyi
PkgO == << <<"o">> >>
PkgOA == << <<"o">>, <<"a">> >>
PkgOB == << <<"o">>, <<"b">> >>
StubPaths == {PkgO, PkgOA, PkgOB}

(***************************************************************************)
(* Stub files: the body of the parsed module, a sequence of top-level      *)
(* nodes <<node class, name>>.  ClassDef and FunctionDef nodes have a      *)
(* .name; an AnnAssign (a constant, X: int = ...) holds its name in        *)
(* .target and an Import in .names, so that hasattr(node, "name") fails.   *)
(***************************************************************************)
Marker == "__module_protocol__"
MarkerNode == <<"ClassDef", Marker>>
BodyNamespace == <<  <<"Import", "typing">>, MarkerNode >>
BodyClass == << <<"Import", "typing">>, <<"ClassDef", "Foo">>, MarkerNode >>
BodyConst == << <<"Import", "typing">>, <<"AnnAssign", "MAX">>, MarkerNode >>
ModuleBodies == {BodyNamespace, BodyClass, BodyConst}
Absent == << <<"absent", "">> >>
NoFile == <<"absent">>

\* hasattr(node, "name")
HasName(node) == node[1] \in {"ClassDef", "FunctionDef", "AsyncFunctionDef"}

\* line 144
Members(body) == {body[i][2] : i \in {j \in 1..Len(body) : HasName(body[j])}}

(***************************************************************************)
(* The runtime shim: INIT_TEMPLATE.format(endpoints=endpoint_args)         *)
(***************************************************************************)
\* repr(x) of a str without quotes in it
Repr(x) == "'" \o x \o "'"

RECURSIVE Join(_)
\* ", ".join(items), each item and each separator one token
Join(items) ==
    IF items = <<>> THEN <<>>
    ELSE IF Len(items) = 1 THEN <<items[1]>>
    ELSE <<items[1], ",">> \o Join(Tail(items))

\* line 153
EndpointArgs(eps) == Join([i \in 1..Len(eps) |-> Repr(eps[i])])

\* lines 34-38, tokenised
InitTemplate(endpoint_args) ==
    <<"from scyjava_stubs import dynamic_import", "NEWLINE",
      "__all__", ",", "__getattr__", "=",
      "dynamic_import", "(", "__name__", ",", "__file__", ",">>
    \o endpoint_args \o <<")", "NEWLINE">>

(***************************************************************************)
(* The reconciler loop body, lines 143-154, for one stub                   *)
(***************************************************************************)
IsNamespaceOnly(body) == Members(body) = {Marker}

\* stub.unlink()
StubsAfter(st, s, rem) ==
    IF IsNamespaceOnly(st[s]) /\ rem THEN [st EXCEPT ![s] = Absent] ELSE st

\* (variant: the file is opened for appending)
WriteText_Append(old, text) == IF old = NoFile THEN text ELSE old \o text
\* real_import.write_text(...): the file is created or truncated
WriteText(old, text) == text

ShimsAfter(st, sh, s, add, eps) ==
    IF ~IsNamespaceOnly(st[s]) /\ add
    THEN [sh EXCEPT ![s] = WriteText(sh[s], InitTemplate(EndpointArgs(eps)))]
    ELSE sh

\* output_dir.rglob("*.pyi")
RGlobPyi(st) == {s \in StubPaths : st[s] /= Absent}

RECURSIVE ReconcilePass(_, _, _, _, _, _)
\* the whole loop of lines 142-154 over the files left to visit
ReconcilePass(left, st, sh, add, rem, eps) ==
    IF left = {} THEN <<st, sh>>
    ELSE LET s == CHOOSE x \in left : TRUE
         IN  ReconcilePass(left \ {s}, StubsAfter(st, s, rem),
                           ShimsAfter(st, sh, s, add, eps), add, rem, eps)

(***************************************************************************)
(* sorted(_prefixes): Python orders str by code point                      *)
(***************************************************************************)
Ord(c) ==
    CASE c = "." -> 46
      [] c = "a" -> 97
      [] c = "b" -> 98
      [] c = "o" -> 111
      [] c = "t" -> 116
      [] OTHER   -> 120

RECURSIVE StrLess(_, _)
StrLess(x, y) ==
    IF y = <<>> THEN FALSE
    ELSE IF x = <<>> THEN TRUE
    ELSE IF Ord(Head(x)) /= Ord(Head(y)) THEN Ord(Head(x)) < Ord(Head(y))
    ELSE StrLess(Tail(x), Tail(y))

RECURSIVE Sorted(_)
Sorted(S) ==
    IF S = {} THEN <<>>
    ELSE LET m == CHOOSE x \in S : \A y \in S \ {x} : StrLess(x, y)
         IN  <<m>> \o Sorted(S \ {m})

(***************************************************************************)
(* The collaborators of the stub driver                                    *)
(***************************************************************************)
\* importlib.import_module(prefix): a name starting with "." is a relative
\* import, refused (TypeError) without a package; whether another name is
\* importable is up to the class path
ImportOutcomes(name) ==
    IF name = <<>> \/ Head(name) = "." THEN {FALSE} ELSE {TRUE, FALSE}

\* stubgenj.generateJavaStubs(jmodules, ...): for each package handed over
\* it writes that package's stub, and a stub holding the marker alone for
\* each parent package that it was not handed
PkgOfName(name) == {p \in StubPaths : DottedName(p) = name}
Written(mods) == UNION {PkgOfName(mods[i]) : i \in 1..Len(mods)}
GeneratorWrites(mods) ==
    LET own == Written(mods)
        above == {a \in StubPaths : \E p \in own : a \in Parents(p)} \ own
    IN  {w \in [own \cup above -> ModuleBodies] :
            \A a \in above : w[a] = BodyNamespace}

(***************************************************************************)
(* generate_stubs, as the steps of one call, and calls one after another   *)
(* into the same output directory                                          *)
(***************************************************************************)
NoRoot == <<"none">>

\* lines 41-115: the call is entered with its arguments, the environment is up
GS_Start ==
    /\ pc \in {"idle", "done", "failed"}
    /\ runs < MaxRuns
    /\ runs' = runs + 1
    /\ endpoints' \in EndpointChoices
    /\ prefixesArg' \in PrefixChoices
    /\ add_runtime_imports' \in BOOLEAN
    /\ remove_namespace_only_stubs' \in BOOLEAN
    /\ prefixes' = <<>>
    /\ jmodules' = <<>>
    /\ genCalls' = 0
    /\ genArg' = <<>>
    /\ failedRoot' = NoRoot
    /\ todo' = {}
    /\ pc' = "discover"
    /\ UNCHANGED <<stubs, shims, firstShim>>
    /\ UNCHANGED <<rfVars, mainVars, diVars>>

\* lines 117-125: the given prefixes, or else the roots of every archive
Discovered(eps) == UNION {ListTopLevelPackages(JarOf(eps[i])) : i \in 1..Len(eps)}

GS_Discover ==
    /\ pc = "discover"
    /\ prefixes' = Sorted(IF prefixesArg /= {} THEN prefixesArg
                          ELSE Discovered(endpoints))
    /\ pc' = "load"
    /\ UNCHANGED <<runs, endpoints, prefixesArg, add_runtime_imports,
                   remove_namespace_only_stubs, jmodules, genCalls, genArg,
                   failedRoot, todo, stubs, shims, firstShim>>
    /\ UNCHANGED <<rfVars, mainVars, diVars>>

\* line 130: the next import_module of the list comprehension; an exception
\* leaves generate_stubs
GS_Load ==
    /\ pc = "load"
    /\ Len(jmodules) < Len(prefixes)
    /\ LET prefix == prefixes[Len(jmodules) + 1]
       IN  \E ok \in ImportOutcomes(prefix) :
              IF ok
              THEN /\ jmodules' = Append(jmodules, prefix)
                   /\ UNCHANGED <<pc, failedRoot>>
              ELSE /\ failedRoot' = prefix
                   /\ pc' = "failed"
                   /\ UNCHANGED jmodules
    /\ UNCHANGED <<runs, endpoints, prefixesArg, add_runtime_imports,
                   remove_namespace_only_stubs, prefixes, genCalls, genArg,
                   todo, stubs, shims, firstShim>>
    /\ UNCHANGED <<rfVars, mainVars, diVars>>

\* (variant: the generator is called from inside the loop over the roots)
GenerateReady_Early == TRUE
\* the list comprehension of line 130 has run to its end
GenerateReady == Len(jmodules) = Len(prefixes)

\* lines 131-142: the one call of the generator, then the walk is set up
GS_Generate ==
    /\ pc = "load"
    /\ GenerateReady
    /\ genCalls' = genCalls + 1
    /\ genArg' = jmodules
    /\ \E w \in GeneratorWrites(jmodules) :
          stubs' = [s \in StubPaths |-> IF s \in DOMAIN w THEN w[s] ELSE stubs[s]]
    /\ todo' = RGlobPyi(stubs')
    /\ pc' = "reconcile"
    /\ UNCHANGED <<runs, endpoints, prefixesArg, add_runtime_imports,
                   remove_namespace_only_stubs, prefixes, jmodules,
                   failedRoot, shims, firstShim>>
    /\ UNCHANGED <<rfVars, mainVars, diVars>>

\* lines 143-154: the loop body for the next stub of the walk
GS_Reconcile ==
    /\ pc = "reconcile"
    /\ \E s \in todo :
          /\ stubs' = StubsAfter(stubs, s, remove_namespace_only_stubs)
          /\ shims' = ShimsAfter(stubs, shims, s, add_runtime_imports, endpoints)
          /\ firstShim' = [firstShim EXCEPT ![s] =
                             IF firstShim[s] = NoFile THEN shims'[s] ELSE @]
          /\ todo' = todo \ {s}
    /\ UNCHANGED <<pc, runs, endpoints, prefixesArg, add_runtime_imports,
                   remove_namespace_only_stubs, prefixes, jmodules, genCalls,
                   genArg, failedRoot>>
    /\ UNCHANGED <<rfVars, mainVars, diVars>>

\* line 156: ruff_check rewrites layout and quotes, not the parsed modules
GS_Finish ==
    /\ pc = "reconcile"
    /\ todo = {}
    /\ pc' = "done"
    /\ UNCHANGED <<runs, endpoints, prefixesArg, add_runtime_imports,
                   remove_namespace_only_stubs, prefixes, jmodules, genCalls,
                   genArg, failedRoot, todo, stubs, shims, firstShim>>
    /\ UNCHANGED <<rfVars, mainVars, diVars>>


(***************************************************************************)
(* main: the command line entry point                                      *)
(***************************************************************************)
NoneValue == "<None>"
Unbound == "<unbound>"
NotCalled == [reached |-> FALSE]

\* what parser.parse_args() can return (lines 14-76); endpoints is nargs="+"
ArgChoices ==
    [endpoints : EndpointChoices,
     prefix : {<<>>, <<NameOB>>},
     output_dir : {NoneValue, "out"},
     convert_strings : BOOLEAN,
     with_javadoc : BOOLEAN,
     runtime_imports : BOOLEAN,
     remove_namespace_only_stubs : BOOLEAN]

\* line 76
M_Parse ==
    /\ mpc = "start"
    /\ args' \in ArgChoices
    /\ mpc' = "parsed"
    /\ UNCHANGED <<output_dir, called>>
    /\ UNCHANGED <<rfVars, gsVars, diVars>>

\* lines 78-84: the local output_dir is bound in this branch alone
M_Default ==
    /\ mpc = "parsed"
    /\ IF args.output_dir = NoneValue
       THEN \E importable \in BOOLEAN :
               output_dir' = IF importable THEN "scyjava_stubs/modules"
                             ELSE "stubs"
       ELSE UNCHANGED output_dir
    /\ mpc' = "call"
    /\ UNCHANGED <<args, called>>
    /\ UNCHANGED <<rfVars, gsVars, diVars>>

\* lines 86-94: the arguments of the call are evaluated; reading a local
\* that was never bound raises UnboundLocalError
M_Call ==
    /\ mpc = "call"
    /\ IF output_dir = Unbound
       THEN /\ mpc' = "UnboundLocalError"
            /\ UNCHANGED called
       ELSE /\ mpc' = "generate_stubs"
            /\ called' = [reached |-> TRUE,
                          endpoints |-> args.endpoints,
                          prefixes |-> args.prefix,
                          output_dir |-> output_dir,
                          convert_strings |-> args.convert_strings,
                          include_javadoc |-> args.with_javadoc,
                          add_runtime_imports |-> args.runtime_imports,
                          remove_namespace_only_stubs |->
                              args.remove_namespace_only_stubs]
    /\ UNCHANGED <<args, output_dir>>
    /\ UNCHANGED <<rfVars, gsVars, diVars>>


(***************************************************************************)
(* dynamic_import(module_name, file_path, coordinates): one module         *)
(* instance, its resolver called from several call sites.  The bootstrap   *)
(* and the lookup run under one mutual exclusion; a lookup in the live     *)
(* namespace yields a new proxy object each time, numbered here by the     *)
(* count of lookups.                                                       *)
(***************************************************************************)
Threads == {"t1", "t2"}
NoThread == "none"
LiveNames == {"Foo", "Bar"}
AskedNames == LiveNames \cup {"Nope"}
NoVal == 0
AttributeError == -1
BootstrapError == -2

\* resolver(name) is called
DI_Call(t) ==
    /\ tpc[t] = "idle"
    /\ calls < MaxCalls
    /\ calls' = calls + 1
    /\ \E n \in AskedNames : tname' = [tname EXCEPT ![t] = n]
    /\ tpc' = [tpc EXCEPT ![t] = "check"]
    /\ UNCHANGED <<bstate, lockHolder, cache, tresult, starts, boots, lookups,
                   returned>>
    /\ UNCHANGED <<rfVars, gsVars, mainVars>>

\* the cache is consulted first: a hit returns the cached value at once
CacheHit(c, n) == c[n] /= NoVal

DI_Check(t) ==
    /\ tpc[t] = "check"
    /\ IF CacheHit(cache, tname[t])
       THEN /\ tresult' = [tresult EXCEPT ![t] = cache[tname[t]]]
            /\ returned' = [returned EXCEPT ![tname[t]] = @ \cup {cache[tname[t]]}]
            /\ tpc' = [tpc EXCEPT ![t] = "idle"]
       ELSE /\ tpc' = [tpc EXCEPT ![t] = "acquire"]
            /\ UNCHANGED <<tresult, returned>>
    /\ UNCHANGED <<bstate, lockHolder, cache, tname, starts, boots, lookups,
                   calls>>
    /\ UNCHANGED <<rfVars, gsVars, mainVars>>

\* (variant: the state is not consulted)
NeedsBootstrap_Always(state) == TRUE
\* whether the caller that got the lock has to start the environment
NeedsBootstrap(state) == state = "unbootstrapped"

\* the caller is suspended until the lock is free
DI_Acquire(t) ==
    /\ tpc[t] = "acquire"
    /\ lockHolder = NoThread
    /\ lockHolder' = t
    /\ IF NeedsBootstrap(bstate)
       THEN /\ bstate' = "bootstrapping"
            /\ starts' = starts + 1
            /\ tpc' = [tpc EXCEPT ![t] = "boot"]
       ELSE /\ tpc' = [tpc EXCEPT ![t] = "resolve"]
            /\ UNCHANGED <<bstate, starts>>
    /\ UNCHANGED <<cache, tname, tresult, boots, lookups, returned, calls>>
    /\ UNCHANGED <<rfVars, gsVars, mainVars>>

\* the environment has started
DI_BootOk(t) ==
    /\ tpc[t] = "boot"
    /\ bstate' = "bootstrapped"
    /\ boots' = boots + 1
    /\ tpc' = [tpc EXCEPT ![t] = "resolve"]
    /\ UNCHANGED <<lockHolder, cache, tname, tresult, starts, lookups,
                   returned, calls>>
    /\ UNCHANGED <<rfVars, gsVars, mainVars>>

\* the environment cannot start: the failure propagates to the caller and to
\* the callers suspended on it, nothing is cached, a later call may retry
DI_BootFail(t) ==
    /\ tpc[t] = "boot"
    /\ bstate' = "unbootstrapped"
    /\ lockHolder' = NoThread
    /\ tpc' = [u \in Threads |->
                 IF u = t \/ tpc[u] = "acquire" THEN "idle" ELSE tpc[u]]
    /\ tresult' = [u \in Threads |->
                     IF u = t \/ tpc[u] = "acquire" THEN BootstrapError
                     ELSE tresult[u]]
    /\ UNCHANGED <<cache, tname, starts, boots, lookups, returned, calls>>
    /\ UNCHANGED <<rfVars, gsVars, mainVars>>

\* the name is resolved against the live namespace and cached, once per name
DI_Resolve(t) ==
    /\ tpc[t] = "resolve"
    /\ LET n == tname[t]
       IN  IF cache[n] /= NoVal
           THEN /\ tresult' = [tresult EXCEPT ![t] = cache[n]]
                /\ returned' = [returned EXCEPT ![n] = @ \cup {cache[n]}]
                /\ UNCHANGED <<cache, lookups>>
           ELSE /\ lookups' = lookups + 1
                /\ IF n \in LiveNames
                   THEN /\ cache' = [cache EXCEPT ![n] = lookups + 1]
                        /\ tresult' = [tresult EXCEPT ![t] = lookups + 1]
                        /\ returned' = [returned EXCEPT ![n] = @ \cup {lookups + 1}]
                   ELSE /\ tresult' = [tresult EXCEPT ![t] = AttributeError]
                        /\ UNCHANGED <<cache, returned>>
    /\ lockHolder' = NoThread
    /\ tpc' = [tpc EXCEPT ![t] = "idle"]
    /\ UNCHANGED <<bstate, tname, starts, boots, calls>>
    /\ UNCHANGED <<rfVars, gsVars, mainVars>>

(***************************************************************************)
(* The specifications.  Each runs one component; the others stay in their  *)
(* initial state.                                                          *)
(***************************************************************************)
InitRoots ==
    /\ namelist \in Archives
    /\ rfpc = "open"
    /\ class_dirs = {}
    /\ pending = {}
    /\ roots = {}
    /\ packages = {}
    /\ pc = "idle"
    /\ runs = 0
    /\ endpoints = <<>>
    /\ prefixesArg = {}
    /\ add_runtime_imports = TRUE
    /\ remove_namespace_only_stubs = FALSE
    /\ prefixes = <<>>
    /\ jmodules = <<>>
    /\ genCalls = 0
    /\ genArg = <<>>
    /\ failedRoot = NoRoot
    /\ todo = {}
    /\ stubs = [s \in StubPaths |-> Absent]
    /\ shims = [s \in StubPaths |-> NoFile]
    /\ firstShim = [s \in StubPaths |-> NoFile]
    /\ mpc = "start"
    /\ args = [endpoints |-> <<CoordA>>, prefix |-> <<>>,
               output_dir |-> NoneValue, convert_strings |-> FALSE,
               with_javadoc |-> TRUE, runtime_imports |-> TRUE,
               remove_namespace_only_stubs |-> FALSE]
    /\ output_dir = Unbound
    /\ called = NotCalled
    /\ bstate = "unbootstrapped"
    /\ lockHolder = NoThread
    /\ cache = [n \in AskedNames |-> NoVal]
    /\ tpc = [t \in Threads |-> "idle"]
    /\ tname = [t \in Threads |-> "Foo"]
    /\ tresult = [t \in Threads |-> NoVal]
    /\ starts = 0
    /\ boots = 0
    /\ lookups = 0
    /\ returned = [n \in AskedNames |-> {}]
    /\ calls = 0

NextRoots == RF_Collect \/ RF_Step \/ RF_Finish

\* list_top_level_packages on every archive of the bounds
SpecRoots == InitRoots /\ [][NextRoots]_vars

Init ==
    /\ namelist = {}
    /\ rfpc = "open"
    /\ class_dirs = {}
    /\ pending = {}
    /\ roots = {}
    /\ packages = {}
    /\ pc = "idle"
    /\ runs = 0
    /\ endpoints = <<>>
    /\ prefixesArg = {}
    /\ add_runtime_imports = TRUE
    /\ remove_namespace_only_stubs = FALSE
    /\ prefixes = <<>>
    /\ jmodules = <<>>
    /\ genCalls = 0
    /\ genArg = <<>>
    /\ failedRoot = NoRoot
    /\ todo = {}
    /\ stubs = [s \in StubPaths |-> Absent]
    /\ shims = [s \in StubPaths |-> NoFile]
    /\ firstShim = [s \in StubPaths |-> NoFile]
    /\ mpc = "start"
    /\ args = [endpoints |-> <<CoordA>>, prefix |-> <<>>,
               output_dir |-> NoneValue, convert_strings |-> FALSE,
               with_javadoc |-> TRUE, runtime_imports |-> TRUE,
               remove_namespace_only_stubs |-> FALSE]
    /\ output_dir = Unbound
    /\ called = NotCalled
    /\ bstate = "unbootstrapped"
    /\ lockHolder = NoThread
    /\ cache = [n \in AskedNames |-> NoVal]
    /\ tpc = [t \in Threads |-> "idle"]
    /\ tname = [t \in Threads |-> "Foo"]
    /\ tresult = [t \in Threads |-> NoVal]
    /\ starts = 0
    /\ boots = 0
    /\ lookups = 0
    /\ returned = [n \in AskedNames |-> {}]
    /\ calls = 0

Next ==
    \/ GS_Start
    \/ GS_Discover
    \/ GS_Load
    \/ GS_Generate
    \/ GS_Reconcile
    \/ GS_Finish

\* generate_stubs, called up to MaxRuns times on one output directory
Spec == Init /\ [][Next]_vars

InitMain ==
    /\ namelist = {}
    /\ rfpc = "open"
    /\ class_dirs = {}
    /\ pending = {}
    /\ roots = {}
    /\ packages = {}
    /\ pc = "idle"
    /\ runs = 0
    /\ endpoints = <<>>
    /\ prefixesArg = {}
    /\ add_runtime_imports = TRUE
    /\ remove_namespace_only_stubs = FALSE
    /\ prefixes = <<>>
    /\ jmodules = <<>>
    /\ genCalls = 0
    /\ genArg = <<>>
    /\ failedRoot = NoRoot
    /\ todo = {}
    /\ stubs = [s \in StubPaths |-> Absent]
    /\ shims = [s \in StubPaths |-> NoFile]
    /\ firstShim = [s \in StubPaths |-> NoFile]
    /\ mpc = "start"
    /\ args = [endpoints |-> <<CoordA>>, prefix |-> <<>>,
               output_dir |-> NoneValue, convert_strings |-> FALSE,
               with_javadoc |-> TRUE, runtime_imports |-> TRUE,
               remove_namespace_only_stubs |-> FALSE]
    /\ output_dir = Unbound
    /\ called = NotCalled
    /\ bstate = "unbootstrapped"
    /\ lockHolder = NoThread
    /\ cache = [n \in AskedNames |-> NoVal]
    /\ tpc = [t \in Threads |-> "idle"]
    /\ tname = [t \in Threads |-> "Foo"]
    /\ tresult = [t \in Threads |-> NoVal]
    /\ starts = 0
    /\ boots = 0
    /\ lookups = 0
    /\ returned = [n \in AskedNames |-> {}]
    /\ calls = 0

NextMain == M_Parse \/ M_Default \/ M_Call

\* one run of main
SpecMain == InitMain /\ [][NextMain]_vars

InitDyn ==
    /\ namelist = {}
    /\ rfpc = "open"
    /\ class_dirs = {}
    /\ pending = {}
    /\ roots = {}
    /\ packages = {}
    /\ pc = "idle"
    /\ runs = 0
    /\ endpoints = <<>>
    /\ prefixesArg = {}
    /\ add_runtime_imports = TRUE
    /\ remove_namespace_only_stubs = FALSE
    /\ prefixes = <<>>
    /\ jmodules = <<>>
    /\ genCalls = 0
    /\ genArg = <<>>
    /\ failedRoot = NoRoot
    /\ todo = {}
    /\ stubs = [s \in StubPaths |-> Absent]
    /\ shims = [s \in StubPaths |-> NoFile]
    /\ firstShim = [s \in StubPaths |-> NoFile]
    /\ mpc = "start"
    /\ args = [endpoints |-> <<CoordA>>, prefix |-> <<>>,
               output_dir |-> NoneValue, convert_strings |-> FALSE,
               with_javadoc |-> TRUE, runtime_imports |-> TRUE,
               remove_namespace_only_stubs |-> FALSE]
    /\ output_dir = Unbound
    /\ called = NotCalled
    /\ bstate = "unbootstrapped"
    /\ lockHolder = NoThread
    /\ cache = [n \in AskedNames |-> NoVal]
    /\ tpc = [t \in Threads |-> "idle"]
    /\ tname = [t \in Threads |-> "Foo"]
    /\ tresult = [t \in Threads |-> NoVal]
    /\ starts = 0
    /\ boots = 0
    /\ lookups = 0
    /\ returned = [n \in AskedNames |-> {}]
    /\ calls = 0

NextDyn ==
    \E t \in Threads :
        \/ DI_Call(t)
        \/ DI_Check(t)
        \/ DI_Acquire(t)
        \/ DI_BootOk(t)
        \/ DI_BootFail(t)
        \/ DI_Resolve(t)

\* the resolver of one module instance, called up to MaxCalls times
SpecDyn == InitDyn /\ [][NextDyn]_vars

(***************************************************************************)
(* Properties of the namespace root finder (under SpecRoots)               *)
(***************************************************************************)
\* the entries of an archive that are compiled classes
ClassEntries(names) == {e \in names : Suffix(e) = DotClass}

\* the directories that directly contain a class entry
ClassContainers(names) == {Parent(e) : e \in ClassEntries(names)}

\* d is a proper ancestor directory of e
IsAncestorDir(d, e) == Len(d) < Len(e) /\ SubSeq(e, 1, Len(d)) = d

\* the class containers with no proper ancestor that is a class container
MinimalContainers(names) ==
    {d \in ClassContainers(names) :
        ~(\E a \in ClassContainers(names) : IsAncestorDir(a, d))}

\* C1: list_top_level_packages returns exactly the dotted names of the
\* directories that directly contain a .class entry and have no proper
\* ancestor that does; no root is an ancestor of another root; and for the
\* classes a/b/C, a/b/d/E, a/f/G the result is {a.b, a.f}.
C1_RootsAreMinimalContainers ==
    rfpc = "done" =>
        /\ packages = {DottedName(d) : d \in MinimalContainers(namelist)}
        /\ \A r1 \in roots : \A r2 \in roots : ~IsAncestorDir(r1, r2)
        /\ namelist = ExampleArchive =>
              {Cat(n) : n \in packages} = {"a.b", "a.f"}

\* the example archive has run to its end: a/b/d was passed over for a/b
C1_Witness ==
    /\ rfpc = "done"
    /\ namelist = ExampleArchive
    /\ << <<"a">>, <<"b">>, <<"d">> >> \in class_dirs \ roots

\* the roots whose subtree holds the entry e
CoveringRoots(rs, e) ==
    {r \in rs : r = Parent(e) \/ IsAncestorDir(r, Parent(e))}

\* C2: after root discovery every .class entry lies in the subtree of
\* exactly one discovered root, and every discovered root holds at least
\* one .class entry; the roots are named one to one.
C2_EveryClassUnderOneRoot ==
    rfpc = "done" =>
        /\ \A e \in ClassEntries(namelist) :
              Cardinality(CoveringRoots(roots, e)) = 1
        /\ \A r \in roots :
              \E e \in ClassEntries(namelist) : r \in CoveringRoots(roots, e)
        /\ Cardinality(packages) = Cardinality(roots)
        /\ ClassEntries(namelist) = {} => packages = {}

\* an archive with a class two levels below its only root, and an entry
\* that is no class
C2_Witness ==
    /\ rfpc = "done"
    /\ Cardinality(roots) = 1
    /\ \E e \in ClassEntries(namelist) :
          \E r \in roots : Len(Parent(e)) >= Len(r) + 2
    /\ ClassEntries(namelist) /= namelist

(***************************************************************************)
(* Properties of generate_stubs (under Spec)                               *)
(***************************************************************************)
\* the archive has a class entry with no parent directory
HasTopLevelClass(names) == \E e \in ClassEntries(names) : Parent(e) = <<>>

\* the run found its roots itself, in an archive with a top-level class
DiscoversTopLevel ==
    /\ prefixesArg = {}
    /\ \E i \in 1..Len(endpoints) : HasTopLevelClass(JarOf(endpoints[i]))

EmptyName == <<>>

\* C3: for an archive with a class directly at its top level, root
\* discovery returns the empty-string root name, and the stub driver
\* generates for it instead of dropping it or failing on it.
C3_TopLevelRootIsGenerated ==
    (pc \in {"done", "failed"} /\ DiscoversTopLevel) =>
        /\ EmptyName \in Range(prefixes)
        /\ pc = "done"
        /\ EmptyName \in Range(genArg)

\* C4: the generator is invoked at most once per run, only after every
\* resolved root has been loaded, with all of them; when a root fails to
\* load the run aborts with that root's error and the generator is never
\* invoked; no root is skipped.
C4_GenerateOnceAfterAllLoaded ==
    /\ genCalls <= 1
    /\ genCalls = 1 => (jmodules = prefixes /\ genArg = prefixes)
    /\ pc \in {"reconcile", "done"} => genCalls = 1
    /\ pc = "failed" =>
          /\ genCalls = 0
          /\ failedRoot = prefixes[Len(jmodules) + 1]
    /\ failedRoot /= NoRoot => pc = "failed"
    /\ \A i \in 1..Len(jmodules) : jmodules[i] = prefixes[i]

\* the second of two roots failed to load after the first was loaded
C4_Witness ==
    /\ pc = "failed"
    /\ Len(prefixes) = 2
    /\ Len(jmodules) = 1
    /\ genCalls = 0

\* the names a stub introduces at module scope: classes, functions and
\* constants
Exports(body) ==
    {body[i][2] : i \in {j \in 1..Len(body) :
        body[j][1] \in {"ClassDef", "FunctionDef", "AsyncFunctionDef",
                        "AnnAssign", "Assign"}}}

\* C5: the reconciler deletes a stub only if the names it introduces at
\* module scope are exactly {__module_protocol__} and remove-namespace-only
\* is set; a stub with the marker and any other declaration is never
\* deleted.
C5_DeletesOnlyMarkerOnlyStubs ==
    [][\A s \in StubPaths :
          (stubs[s] /= Absent /\ stubs'[s] = Absent) =>
              /\ remove_namespace_only_stubs
              /\ Exports(stubs[s]) = {Marker}]_vars

\* the places of the calls "dynamic_import (" in a tokenised module
CallSites(toks) ==
    {i \in 1..(Len(toks) - 1) : toks[i] = "dynamic_import" /\ toks[i + 1] = "("}

RECURSIVE SplitArgs(_, _, _, _, _)
\* the arguments of a call, from the token after its "(": split at the
\* commas outside brackets, up to the closing ")"
SplitArgs(toks, k, depth, cur, acc) ==
    IF k > Len(toks) THEN acc
    ELSE IF toks[k] = ")" /\ depth = 0
         THEN (IF cur = <<>> THEN acc ELSE Append(acc, cur))
    ELSE IF toks[k] = "," /\ depth = 0
         THEN SplitArgs(toks, k + 1, 0, <<>>, Append(acc, cur))
    ELSE IF toks[k] \in {"[", "("}
         THEN SplitArgs(toks, k + 1, depth + 1, Append(cur, toks[k]), acc)
    ELSE IF toks[k] \in {"]", ")"}
         THEN SplitArgs(toks, k + 1, depth - 1, Append(cur, toks[k]), acc)
    ELSE SplitArgs(toks, k + 1, depth, Append(cur, toks[k]), acc)

CallArgs(toks, i) == SplitArgs(toks, i + 2, 0, <<>>, <<>>)

\* the list display of the coordinate strings, in order
ListLiteral(eps) == <<"[">> \o EndpointArgs(eps) \o <<"]">>

\* the real stubs the reconciler of this run has visited
VisitedReal == {s \in RGlobPyi(stubs) \ todo : ~IsNamespaceOnly(stubs[s])}

\* C6: with add-runtime-imports set and a non-empty sequence of
\* coordinates, the companion module of every real stub holds exactly one
\* call of dynamic_import, with exactly three arguments: __name__, __file__
\* and one list of exactly the coordinate strings, in order.
C6_ShimHasThreeArguments ==
    (pc \in {"reconcile", "done"} /\ add_runtime_imports /\ endpoints /= <<>>) =>
        \A s \in VisitedReal :
            /\ Cardinality(CallSites(shims[s])) = 1
            /\ \A i \in CallSites(shims[s]) :
                  CallArgs(shims[s], i) =
                      << <<"__name__">>, <<"__file__">>, ListLiteral(endpoints) >>

\* C7: a second reconciler pass over the tree a first pass has left, with
\* the same flags and coordinates, changes neither the set of files nor
\* their contents.
C7_ReconcilerIdempotent ==
    ((pc = "reconcile" /\ todo = {}) \/ pc = "done") =>
        ReconcilePass(RGlobPyi(stubs), stubs, shims, add_runtime_imports,
                      remove_namespace_only_stubs, endpoints)
            = <<stubs, shims>>

\* a pass that has deleted the namespace-only stub of o and has written the
\* companion of o.a
C7_Witness ==
    /\ pc = "done"
    /\ remove_namespace_only_stubs
    /\ add_runtime_imports
    /\ Len(genArg) >= 1
    /\ stubs[PkgO] = Absent
    /\ stubs[PkgOA] /= Absent
    /\ shims[PkgOA] = InitTemplate(EndpointArgs(endpoints))

\* C9: across runs into one output directory a runtime shim is written
\* once and never updated: after every later run its content is that of
\* its first write.
C9_ShimNeverRewritten ==
    \A s \in StubPaths : firstShim[s] /= NoFile => shims[s] = firstShim[s]

(***************************************************************************)
(* Properties of main (under SpecMain)                                     *)
(***************************************************************************)
DefaultDirs == {"scyjava_stubs/modules", "stubs"}

\* C10: for every command line, with or without --output-dir,
\* generate_stubs is reached with a defined output directory: the path of
\* --output-dir when it is given, otherwise the default directory.
C10_OutputDirAlwaysDefined ==
    mpc \in {"generate_stubs", "UnboundLocalError"} =>
        /\ called.reached
        /\ IF args.output_dir /= NoneValue
           THEN called.output_dir = args.output_dir
           ELSE called.output_dir \in DefaultDirs

(***************************************************************************)
(* Properties of dynamic_import (under SpecDyn)                            *)
(***************************************************************************)
Rank(state) ==
    CASE state = "unbootstrapped" -> 0
      [] state = "bootstrapping"  -> 1
      [] OTHER                    -> 2

\* a resolver call that finds its name cached returns in this step
CacheHitStep(t) ==
    /\ tpc[t] = "check"
    /\ cache[tname[t]] /= NoVal
    /\ tpc'[t] /= "check"

\* the resolutions of one name all return one and the same value, a cache
\* hit returns the cached value and touches neither the environment nor
\* the live namespace, and a cached value is never replaced
CachedResolution ==
    /\ \A n \in AskedNames : Cardinality(returned'[n]) <= 1
    /\ \A t \in Threads :
          CacheHitStep(t) =>
              /\ tresult'[t] = cache[tname[t]]
              /\ starts' = starts
              /\ lookups' = lookups
              /\ bstate' = bstate
    /\ \A n \in AskedNames : cache[n] /= NoVal => cache'[n] = cache[n]

====
